---- MODULE Spec2Model ----
(***************************************************************************)
(* Kobot: the voice commands of src/main.rs and the two songbird event     *)
(* handlers (TrackEndNotifier, DurationElapsedNotifier) for one guild.     *)
(*                                                                         *)
(* A Session is a songbird Call; the Registry is the songbird manager.     *)
(* Every step below is one stretch of code between two suspension points   *)
(* (.await on manager.get / manager.join / Mutex::lock / manager.remove).  *)
(* A Call is identified by the number it got when it was created, which    *)
(* serves as its generation.                                               *)
(***************************************************************************)
EXTENDS Integers, Sequences, FiniteSets, TLC

\* ---- bounds of the model ------------------------------------------------
MaxSess   == 2      \* Calls created over a run
MaxTracks == 2      \* sources resolved over a run
MaxCmds   == 2      \* commands issued over a run
MaxItems  == 2      \* items of a playlist

Sess   == 1..MaxSess
Cmds   == {1, 2}    \* commands in flight at the same time
NoCall == 0         \* manager.get(guild_id) = None
Free   == 0         \* the Call's Mutex is not held

\* #[commands(...)] of the General group, without the mute and deafen commands
\* (VoiceKinds below).  leave is defined but is not in the list, so the
\* framework never dispatches it: Spec is the playback commands as built,
\* SpecLeave the same with leave listed, SpecVoice all twelve commands as
\* built, SpecAll the twelve and leave.
Kinds == {"join", "queue", "play", "skip", "stop", "pause", "resume", "shuffle"}

VARIABLES
    calls,      \* manager: the Call registered for the guild, or NoCall
    nextSess,   \* number the next created Call gets
    removed,    \* Calls that manager.remove took out of the manager
    lock,       \* lock[s]: the command holding the Call's Mutex, or Free
    queue,      \* queue[s]: the TrackQueue, a sequence of [id, mode]
    awaiting,   \* awaiting[s]: a track End is waiting for the driver's tick
    nTE,        \* nTE[s]: TrackEndNotifier handlers registered on the Call
    long,       \* long[s]: armed Delayed(7200) DurationElapsedNotifier{quit: false}
    recheck,    \* recheck[s]: armed Delayed(300) DurationElapsedNotifier{quit: true}
    evpc,       \* evpc[s]: where the event task of the Call's driver is
    evh,        \* evh[s]: the handler_lock the running event handler got
    teLeft,     \* teLeft[s]: TrackEndNotifier handlers left to run this tick
    pc,         \* pc[c]: where command c is
    kind,       \* kind[c]: the command
    hl,         \* hl[c]: the handler_lock command c got
    nextTrack,  \* id the next resolved source gets
    ncmd,       \* commands issued so far
    last,       \* last[s]: the last playback control applied to the Call's queue
    said,       \* the messages the last step sent to the channel, in order
    tx,         \* the result of the gateway update the last step sent, or "none"
    self_mute,  \* self_mute[s]: Call::is_mute()
    self_deaf,  \* self_deaf[s]: Call::is_deaf()
    joinErr,    \* joinErr[s]: a Call::join on this Call returned an Err
    resp,       \* resp[c]: the items of the playlist still to resolve
    sources     \* sources[c]: `sources`, the Vec the playlist loop builds

sessVars == <<calls, nextSess, removed, lock>>
qVars    == <<queue, awaiting, nextTrack, last>>
evVars   == <<nTE, long, recheck, evpc, evh, teLeft>>
cmdVars  == <<pc, kind, hl, ncmd>>
outVars  == <<said, tx>>
muteVars == <<self_mute, self_deaf>>
plVars   == <<resp, sources>>
vars     == <<sessVars, qVars, evVars, cmdVars, outVars, muteVars, joinErr, plVars>>

\* ---- what a step says in the channel -------------------------------------------
\* msg.reply / msg.channel_id.say; n is the number the text is formatted with.
Msg(m) == [msg |-> m, n |-> 0]

MsgN(m, k) == [msg |-> m, n |-> k]

\* The step says ms and sends no gateway update.
Say(ms) ==
    /\ said' = ms
    /\ tx' = "none"

\* The step says nothing and touches neither the mute and deaf flags, nor the
\* connection, nor a playlist.
Quiet ==
    /\ Say(<<>>)
    /\ UNCHANGED <<muteVars, joinErr, plVars>>

\* ---- songbird's TrackQueue ----------------------------------------------
Live == {"Play", "Pause"}     \* the track is still in the mixer

\* TrackQueue::add: a track added behind others starts paused.
enqueue_source(q, id) ==
    Append(q, [id |-> id, mode |-> IF q = <<>> THEN "Play" ELSE "Pause"])

RECURSIVE enqueue_sources(_, _)
enqueue_sources(q, ids) ==
    IF ids = <<>> THEN q
    ELSE enqueue_sources(enqueue_source(q, Head(ids)), Tail(ids))

\* Mutant of queue_pause: the pause is not applied.
queue_pause_lost(q) == q

\* Mutant of queue_resume: the resume is not applied.
queue_resume_lost(q) == q

\* TrackQueue::pause / resume: act on the front track only; a failure
\* (the track already left the mixer) is dropped by `let _ =`.
queue_pause(q) ==
    IF q # <<>> /\ q[1].mode \in Live THEN [q EXCEPT ![1].mode = "Pause"] ELSE q

queue_resume(q) ==
    IF q # <<>> /\ q[1].mode \in Live THEN [q EXCEPT ![1].mode = "Play"] ELSE q

\* TrackQueue::skip: stops the front track; it leaves the queue only when
\* its End event is handled.
queue_skip(q) ==
    IF q # <<>> /\ q[1].mode \in Live THEN [q EXCEPT ![1].mode = "Stop"] ELSE q

\* The queue's own End handler: plays the first of the remaining tracks
\* that can still be played and drops those that cannot.
RECURSIVE PlayNext(_)
PlayNext(q) ==
    IF q = <<>> THEN q
    ELSE IF q[1].mode \in Live THEN [q EXCEPT ![1].mode = "Play"]
    ELSE PlayNext(Tail(q))

\* q.make_contiguous().shuffle(&mut thread_rng()): any order of the whole deque.
Shuffles(q) ==
    { [i \in 1..Len(q) |-> q[p[i]]] : p \in Permutations(1..Len(q)) }

\* ---- helpers --------------------------------------------------------------
\* A Call's driver runs while the manager or some task still holds the Arc.
Alive(s) ==
    \/ calls = s
    \/ \E c \in Cmds : hl[c] = s
    \/ \E t \in Sess : evh[t] = s

Init ==
    /\ calls = NoCall
    /\ nextSess = 1
    /\ removed = {}
    /\ lock = [s \in Sess |-> Free]
    /\ queue = [s \in Sess |-> <<>>]
    /\ awaiting = [s \in Sess |-> FALSE]
    /\ nTE = [s \in Sess |-> 0]
    /\ long = [s \in Sess |-> 0]
    /\ recheck = [s \in Sess |-> 0]
    /\ evpc = [s \in Sess |-> "idle"]
    /\ evh = [s \in Sess |-> NoCall]
    /\ teLeft = [s \in Sess |-> 0]
    /\ pc = [c \in Cmds |-> "idle"]
    /\ kind = [c \in Cmds |-> "none"]
    /\ hl = [c \in Cmds |-> NoCall]
    /\ nextTrack = 1
    /\ ncmd = 0
    /\ last = [s \in Sess |-> "none"]
    /\ said = <<>>
    /\ tx = "none"
    /\ self_mute = [s \in Sess |-> FALSE]
    /\ self_deaf = [s \in Sess |-> FALSE]
    /\ joinErr = [s \in Sess |-> FALSE]
    /\ resp = [c \in Cmds |-> <<>>]
    /\ sources = [c \in Cmds |-> <<>>]


\* ---- the songbird manager ---------------------------------------------------
\* Mutant of get_or_insert: a Call is inserted whether or not one is registered.
insert_always(c) ==
    /\ nextSess <= MaxSess
    /\ calls' = nextSess
    /\ nextSess' = nextSess + 1
    /\ hl' = [hl EXCEPT ![c] = nextSess]

\* manager.join's get_or_insert: one atomic step on the manager's map.
get_or_insert(c) ==
    IF calls = NoCall
    THEN /\ nextSess <= MaxSess
         /\ calls' = nextSess
         /\ nextSess' = nextSess + 1
         /\ hl' = [hl EXCEPT ![c] = nextSess]
    ELSE /\ hl' = [hl EXCEPT ![c] = calls]
         /\ UNCHANGED <<calls, nextSess>>

\* manager.remove: leave() on the registered Call under its Mutex, then the
\* Call is taken out of the map; Err(JoinError::NoCall) when none is registered.
remove_ok ==
    /\ calls # NoCall
    /\ lock[calls] = Free
    /\ removed' = removed \cup {calls}
    /\ calls' = NoCall

remove_err ==
    /\ calls = NoCall
    /\ UNCHANGED <<calls, removed>>

\* ---- commands -----------------------------------------------------------------
\* The command returns Ok(()): its handler_lock is dropped.
Return(c) ==
    /\ pc' = [pc EXCEPT ![c] = "idle"]
    /\ kind' = [kind EXCEPT ![c] = "none"]
    /\ hl' = [hl EXCEPT ![c] = NoCall]

\* The framework dispatches a command of the General group.
Dispatch(c) ==
    /\ pc[c] = "idle"
    /\ ncmd < MaxCmds
    /\ \E k \in Kinds :
        /\ kind' = [kind EXCEPT ![c] = k]
        /\ pc' = [pc EXCEPT ![c] =
                    CASE k = "join" -> "join"
                      [] k = "queue" -> "qget"
                      [] OTHER -> "get"]
    /\ ncmd' = ncmd + 1
    /\ UNCHANGED <<hl, sessVars, qVars, evVars>>
    /\ Quiet

\* leave, were it listed in #[commands(...)].
dispatch_leave(c) ==
    /\ pc[c] = "idle"
    /\ ncmd < MaxCmds
    /\ kind' = [kind EXCEPT ![c] = "leave"]
    /\ pc' = [pc EXCEPT ![c] = "get"]
    /\ ncmd' = ncmd + 1
    /\ UNCHANGED <<hl, sessVars, qVars, evVars>>
    /\ Quiet

\* join / queue: the author is in no voice channel: "Not in a voice channel".
not_in_voice(c) ==
    /\ pc[c] = "join"
    /\ Return(c)
    /\ UNCHANGED <<ncmd, sessVars, qVars, evVars>>
    /\ Say(<<Msg("Not in a voice channel")>>)
    /\ UNCHANGED <<muteVars, joinErr, plVars>>

\* join / queue: manager.join(guild_id, connect_to), first half.
manager_join(c) ==
    /\ pc[c] = "join"
    /\ get_or_insert(c)
    /\ pc' = [pc EXCEPT ![c] = "conn"]
    /\ UNCHANGED <<removed, lock, kind, ncmd, qVars, evVars>>
    /\ Quiet

\* manager.join, second half: call.lock().await, then Call::join.  Its result
\* is dropped by `let (_, _) =` and `let (handle_lock, _) =`: whether or not
\* the connection is established, the command goes on the same way.
call_join(c) ==
    /\ pc[c] = "conn"
    /\ lock[hl[c]] = Free
    /\ IF kind[c] = "join"
       THEN Return(c)
       ELSE pc' = [pc EXCEPT ![c] = "lock"] /\ UNCHANGED <<hl, kind>>
    /\ UNCHANGED <<calls, nextSess, removed, lock, ncmd, qVars, evVars>>
    /\ joinErr' = [joinErr EXCEPT ![hl[c]] = FALSE]
    /\ Say(<<>>)
    /\ UNCHANGED <<muteVars, plVars>>

\* manager.join, second half, when Call::join returns an Err (the gateway
\* request fails or times out): the Err is the dropped half of the pair, the
\* Call stays in the manager, and the command goes on as after an Ok.
call_join_err(c) ==
    /\ pc[c] = "conn"
    /\ lock[hl[c]] = Free
    /\ IF kind[c] = "join"
       THEN Return(c)
       ELSE pc' = [pc EXCEPT ![c] = "lock"] /\ UNCHANGED <<hl, kind>>
    /\ UNCHANGED <<calls, nextSess, removed, lock, ncmd, qVars, evVars>>
    /\ joinErr' = [joinErr EXCEPT ![hl[c]] = TRUE]
    /\ Say(<<>>)
    /\ UNCHANGED <<muteVars, plVars>>

\* queue: `if let Some(handler_lock) = manager.get(guild_id)`.
queue_get(c) ==
    /\ pc[c] = "qget"
    /\ IF calls # NoCall
       THEN /\ hl' = [hl EXCEPT ![c] = calls]
            /\ pc' = [pc EXCEPT ![c] = "lock"]
       ELSE /\ pc' = [pc EXCEPT ![c] = "join"]
            /\ UNCHANGED hl
    /\ UNCHANGED <<kind, ncmd, sessVars, qVars, evVars>>
    /\ Quiet

\* queue: `let mut handler = handler_lock.lock().await`, held until return.
queue_lock(c) ==
    /\ pc[c] = "lock"
    /\ lock[hl[c]] = Free
    /\ lock' = [lock EXCEPT ![hl[c]] = c]
    /\ pc' = [pc EXCEPT ![c] = "resolve"]
    /\ UNCHANGED <<calls, nextSess, removed, kind, hl, ncmd, qVars, evVars>>
    /\ Quiet

\* The ids of the sources of a playlist whose items resolve as `items` says.
RECURSIVE Resolved(_, _)
Resolved(items, from) ==
    IF items = <<>> THEN <<>>
    ELSE IF Head(items) THEN <<from>> \o Resolved(Tail(items), from + 1)
    ELSE Resolved(Tail(items), from)

\* queue, from the enqueue loop to the return: both global events are added
\* on every call.
enqueue_and_arm(c, ids) ==
    LET s == hl[c] IN
    /\ nextTrack + Len(ids) <= MaxTracks + 1
    /\ queue' = [queue EXCEPT ![s] = enqueue_sources(queue[s], ids)]
    /\ nextTrack' = nextTrack + Len(ids)
    /\ nTE' = [nTE EXCEPT ![s] = @ + 1]
    /\ long' = [long EXCEPT ![s] = @ + 1]
    /\ lock' = [lock EXCEPT ![s] = Free]
    /\ Return(c)
    /\ UNCHANGED <<calls, nextSess, removed, ncmd, awaiting, last,
                   recheck, evpc, evh, teLeft>>
    /\ Say(<<MsgN("Added songs to queue: total length is", Len(queue'[s]))>>)
    /\ UNCHANGED <<muteVars, joinErr, plVars>>

\* queue: a search or a single URL that resolves.
queue_single(c) ==
    /\ pc[c] = "resolve"
    /\ enqueue_and_arm(c, <<nextTrack>>)

\* queue: a playlist URL; the items that fail are skipped.
queue_playlist(c) ==
    /\ pc[c] = "resolve"
    /\ \E n \in 0..MaxItems : \E items \in [1..n -> BOOLEAN] :
        enqueue_and_arm(c, Resolved(items, nextTrack))

\* queue: "Error sourcing ffmpeg", or the playlist request fails (`?`):
\* the command returns before anything is enqueued or registered.
queue_error(c) ==
    /\ pc[c] = "resolve"
    /\ lock' = [lock EXCEPT ![hl[c]] = Free]
    /\ Return(c)
    /\ UNCHANGED <<calls, nextSess, removed, ncmd, qVars, evVars>>
    /\ \E ms \in {<<Msg("Error sourcing ffmpeg")>>, <<>>} : Say(ms)
    /\ UNCHANGED <<muteVars, joinErr, plVars>>

\* What a command says when manager.get(guild_id) is None.
not_connected(k) ==
    CASE k \in {"mute", "deafen", "leave"} -> "Not in a voice channel"
      [] k = "unmute" -> "Not in a voice channel to unmute in"
      [] k = "undeafen" -> "Not in a voice channel to undeafen in"
      [] OTHER -> "Not in a voice channel to play in"

\* Mutant of manager_get: the None branch returns without its reply.
manager_get_silent(c) ==
    /\ pc[c] = "get"
    /\ IF calls # NoCall
       THEN IF kind[c] = "leave"
            THEN pc' = [pc EXCEPT ![c] = "remove"] /\ UNCHANGED <<hl, kind>>
            ELSE /\ pc' = [pc EXCEPT ![c] = "act"]
                 /\ hl' = [hl EXCEPT ![c] = calls]
                 /\ UNCHANGED kind
       ELSE IF kind[c] = "play"
            THEN pc' = [pc EXCEPT ![c] = "qget"] /\ UNCHANGED <<hl, kind>>
            ELSE Return(c)
    /\ UNCHANGED <<ncmd, sessVars, qVars, evVars>>
    /\ Say(<<>>)
    /\ UNCHANGED <<muteVars, joinErr, plVars>>

\* The commands but join and queue: manager.get(guild_id), with the reply
\* and the return of the None branch.
manager_get(c) ==
    /\ pc[c] = "get"
    /\ IF calls # NoCall
       THEN IF kind[c] = "leave"
            THEN pc' = [pc EXCEPT ![c] = "remove"] /\ UNCHANGED <<hl, kind>>
            ELSE /\ pc' = [pc EXCEPT ![c] = "act"]
                 /\ hl' = [hl EXCEPT ![c] = calls]
                 /\ UNCHANGED kind
       ELSE \* "Not in a voice channel"; play goes on with queue
            IF kind[c] = "play"
            THEN pc' = [pc EXCEPT ![c] = "qget"] /\ UNCHANGED <<hl, kind>>
            ELSE Return(c)
    /\ UNCHANGED <<ncmd, sessVars, qVars, evVars>>
    /\ Say(IF calls = NoCall THEN <<Msg(not_connected(kind[c]))>> ELSE <<>>)
    /\ UNCHANGED <<muteVars, joinErr, plVars>>

\* leave: manager.remove(guild_id); an Err is reported and dropped.
leave(c) ==
    /\ pc[c] = "remove"
    /\ (remove_ok \/ remove_err)
    /\ Return(c)
    /\ UNCHANGED <<nextSess, lock, ncmd, qVars, evVars>>
    /\ Say(IF calls = NoCall
           THEN <<Msg("Failed"), Msg("Left voice channel")>>
           ELSE <<Msg("Left voice channel")>>)
    /\ UNCHANGED <<muteVars, joinErr, plVars>>

\* What stop does to the queue: every track is stopped and dropped.
stop(c) ==
    LET s == hl[c] IN
    /\ kind[c] \in {"stop", "play"}
    /\ queue' = [queue EXCEPT ![s] = <<>>]
    /\ awaiting' = [awaiting EXCEPT ![s] =
                      @ \/ \E i \in 1..Len(queue[s]) : queue[s][i].mode # "Dead"]
    /\ last' = [last EXCEPT ![s] = "other"]

skip(c) ==
    LET s == hl[c] IN
    /\ kind[c] = "skip"
    /\ queue' = [queue EXCEPT ![s] = queue_skip(@)]
    /\ last' = [last EXCEPT ![s] = "other"]
    /\ UNCHANGED awaiting

pause(c) ==
    LET s == hl[c] IN
    /\ kind[c] = "pause"
    /\ queue' = [queue EXCEPT ![s] = queue_pause(@)]
    /\ last' = [last EXCEPT ![s] = "other"]
    /\ UNCHANGED awaiting

resume(c) ==
    LET s == hl[c] IN
    /\ kind[c] = "resume"
    /\ queue' = [queue EXCEPT ![s] = queue_resume(@)]
    /\ last' = [last EXCEPT ![s] = "resume"]
    /\ UNCHANGED awaiting

\* Mutant of shuffle: the queue.resume() after the shuffle is missing.
shuffle_no_resume(c) ==
    LET s == hl[c] IN
    /\ kind[c] = "shuffle"
    /\ \E q \in Shuffles(queue_pause(queue[s])) :
        queue' = [queue EXCEPT ![s] = q]
    /\ last' = [last EXCEPT ![s] = "shuffle"]
    /\ UNCHANGED awaiting

\* shuffle: queue.pause(), the shuffle of the deque, queue.resume().
shuffle(c) ==
    LET s == hl[c] IN
    /\ kind[c] = "shuffle"
    /\ \E q \in Shuffles(queue_pause(queue[s])) :
        queue' = [queue EXCEPT ![s] = queue_resume(q)]
    /\ last' = [last EXCEPT ![s] = "shuffle"]
    /\ UNCHANGED awaiting

\* What skip, stop, pause, resume and shuffle say once the queue call is made;
\* skip formats queue.len(), read right after queue.skip().
locked_reply(c) ==
    CASE kind[c] \in {"stop", "play"} -> Msg("Queue cleared.")
      [] kind[c] = "skip" -> MsgN("Song skipped: in queue.", Len(queue'[hl[c]]))
      [] kind[c] = "pause" -> Msg("Paused the queue")
      [] kind[c] = "resume" -> Msg("Resumed the queue")
      [] OTHER -> Msg("Shuffled the queue")

\* skip, stop, pause, resume, shuffle: the body under handler_lock.lock().await;
\* play calls queue after stop.
locked(c) ==
    /\ pc[c] = "act"
    /\ lock[hl[c]] = Free
    /\ (stop(c) \/ skip(c) \/ pause(c) \/ resume(c) \/ shuffle(c))
    /\ IF kind[c] = "play"
       THEN /\ pc' = [pc EXCEPT ![c] = "qget"]
            /\ hl' = [hl EXCEPT ![c] = NoCall]
            /\ UNCHANGED kind
       ELSE Return(c)
    /\ UNCHANGED <<ncmd, nextTrack, sessVars, evVars>>
    /\ Say(<<locked_reply(c)>>)
    /\ UNCHANGED <<muteVars, joinErr, plVars>>

\* ---- the driver of a Call: mixer and event task -----------------------------
\* The mixer: the playing front track reaches its end.
track_finish(s) ==
    /\ Alive(s)
    /\ queue[s] # <<>>
    /\ queue[s][1].mode = "Play"
    /\ queue' = [queue EXCEPT ![s][1].mode = "Stop"]
    /\ UNCHANGED <<awaiting, nextTrack, last, sessVars, evVars, cmdVars>>
    /\ Quiet

\* The event task handles the End of a stopped track: the queue's own handler
\* pops it if it is the front and plays the next; the global End handlers
\* run at the next tick.
queue_handler(s) ==
    /\ Alive(s)
    /\ evpc[s] = "idle"
    /\ \E i \in 1..Len(queue[s]) :
        /\ queue[s][i].mode = "Stop"
        /\ queue' = [queue EXCEPT ![s] =
                       IF i = 1 THEN PlayNext(Tail(@))
                       ELSE [@ EXCEPT ![i].mode = "Dead"]]
    /\ awaiting' = [awaiting EXCEPT ![s] = TRUE]
    /\ UNCHANGED <<nextTrack, last, sessVars, evVars, cmdVars>>
    /\ Quiet

\* The tick after a track End: the TrackEndNotifier handlers run one by one.
tick(s) ==
    /\ Alive(s)
    /\ evpc[s] = "idle"
    /\ awaiting[s]
    /\ awaiting' = [awaiting EXCEPT ![s] = FALSE]
    /\ IF nTE[s] = 0
       THEN UNCHANGED <<evpc, teLeft>>
       ELSE /\ evpc' = [evpc EXCEPT ![s] = "te_get"]
            /\ teLeft' = [teLeft EXCEPT ![s] = nTE[s]]
    /\ UNCHANGED <<queue, nextTrack, last, nTE, long, recheck, evh, sessVars, cmdVars>>
    /\ Quiet

\* TrackEndNotifier::act returns None: the next handler of the tick runs.
te_done(s) ==
    /\ teLeft' = [teLeft EXCEPT ![s] = @ - 1]
    /\ evpc' = [evpc EXCEPT ![s] = IF teLeft[s] = 1 THEN "idle" ELSE "te_get"]
    /\ evh' = [evh EXCEPT ![s] = NoCall]

\* An unwrap() on None or Err: the event task of the driver panics and runs
\* no further handler.  `at` names the unwrap(): "panic_remove" is line 401,
\* "panic_current" is line 449.
panic(s, at) ==
    /\ evpc' = [evpc EXCEPT ![s] = at]
    /\ evh' = [evh EXCEPT ![s] = NoCall]
    /\ UNCHANGED teLeft

\* TrackEndNotifier::act: `if let Some(handler_lock) = manager.get(self.guild_id)`.
te_get(s) ==
    /\ evpc[s] = "te_get"
    /\ IF calls = NoCall
       THEN te_done(s)
       ELSE /\ evh' = [evh EXCEPT ![s] = calls]
            /\ evpc' = [evpc EXCEPT ![s] = "te_lock"]
            /\ UNCHANGED teLeft
    /\ UNCHANGED <<nTE, long, recheck, sessVars, qVars, cmdVars>>
    /\ Quiet

\* TrackEndNotifier::act: queue.is_empty() under the lock, which is released
\* at the end of the `if let` block, before manager.remove.
te_check(s) ==
    /\ evpc[s] = "te_lock"
    /\ lock[evh[s]] = Free
    /\ IF queue[evh[s]] = <<>>
       THEN /\ evpc' = [evpc EXCEPT ![s] = "te_remove"]
            /\ evh' = [evh EXCEPT ![s] = NoCall]
            /\ UNCHANGED teLeft
       ELSE te_done(s)
    /\ UNCHANGED <<nTE, long, recheck, sessVars, qVars, cmdVars>>
    /\ Quiet

\* TrackEndNotifier::act: manager.remove(self.guild_id).await.unwrap().
te_remove(s) ==
    /\ evpc[s] = "te_remove"
    /\ \/ remove_ok /\ te_done(s)
       \/ remove_err /\ panic(s, "panic_remove")
    /\ UNCHANGED <<nextSess, lock, nTE, long, recheck, qVars, cmdVars>>
    /\ Quiet

\* DurationElapsedNotifier{quit: false}::act: the Delayed(7200) event fires.
dn_fire(s) ==
    /\ Alive(s)
    /\ evpc[s] = "idle"
    /\ long[s] > 0
    /\ long' = [long EXCEPT ![s] = @ - 1]
    /\ IF calls = NoCall
       THEN evpc' = [evpc EXCEPT ![s] = "dn_say"] /\ UNCHANGED evh
       ELSE /\ evh' = [evh EXCEPT ![s] = calls]
            /\ evpc' = [evpc EXCEPT ![s] = "dn_lock"]
    /\ UNCHANGED <<nTE, recheck, teLeft, sessVars, qVars, cmdVars>>
    /\ Quiet

\* quit = false, under the lock of the Call that manager.get returned: the
\* Delayed(300) event is added to that Call and its queue is paused.
dn_pause(s) ==
    /\ evpc[s] = "dn_lock"
    /\ lock[evh[s]] = Free
    /\ recheck' = [recheck EXCEPT ![evh[s]] = @ + 1]
    /\ queue' = [queue EXCEPT ![evh[s]] = queue_pause(@)]
    /\ last' = [last EXCEPT ![evh[s]] = "autopause"]
    /\ evpc' = [evpc EXCEPT ![s] = "dn_say"]
    /\ evh' = [evh EXCEPT ![s] = NoCall]
    /\ UNCHANGED <<awaiting, nextTrack, nTE, long, teLeft, sessVars, cmdVars>>
    /\ Quiet

\* quit = false: "Paused content after 2 hours. ~resume to resume", said
\* whether or not a Call was found.
dn_say(s) ==
    /\ evpc[s] = "dn_say"
    /\ evpc' = [evpc EXCEPT ![s] = "idle"]
    /\ UNCHANGED <<nTE, long, recheck, evh, teLeft, sessVars, qVars, cmdVars>>
    /\ Say(<<Msg("Paused content after 2 hours. ~resume to resume")>>)
    /\ UNCHANGED <<muteVars, joinErr, plVars>>

\* DurationElapsedNotifier{quit: true}::act: the Delayed(300) event fires.
rq_fire(s) ==
    /\ Alive(s)
    /\ evpc[s] = "idle"
    /\ recheck[s] > 0
    /\ recheck' = [recheck EXCEPT ![s] = @ - 1]
    /\ IF calls = NoCall
       THEN UNCHANGED <<evpc, evh>>
       ELSE /\ evh' = [evh EXCEPT ![s] = calls]
            /\ evpc' = [evpc EXCEPT ![s] = "rq_lock"]
    /\ UNCHANGED <<nTE, long, teLeft, sessVars, qVars, cmdVars>>
    /\ Quiet

\* What `queue.current().unwrap().get_info().await.unwrap().playing` gives:
\* the modes it can return, or "panic" where an unwrap() can fail.  A stopped
\* track answers until the mixer has dropped it.
current_playing(q) ==
    IF q = <<>> THEN {"panic"}
    ELSE IF q[1].mode \in Live THEN {q[1].mode}
    ELSE IF q[1].mode = "Stop" THEN {"Stop", "panic"}
    ELSE {"panic"}

\* quit = true: `playing == PlayMode::Pause` under the lock, released before
\* manager.remove.
rq_check(s) ==
    /\ evpc[s] = "rq_lock"
    /\ lock[evh[s]] = Free
    /\ \E m \in current_playing(queue[evh[s]]) :
        CASE m = "panic" -> panic(s, "panic_current")
          [] m = "Pause" -> /\ evpc' = [evpc EXCEPT ![s] = "rq_remove"]
                            /\ evh' = [evh EXCEPT ![s] = NoCall]
                            /\ UNCHANGED teLeft
          [] OTHER -> /\ evpc' = [evpc EXCEPT ![s] = "idle"]
                      /\ evh' = [evh EXCEPT ![s] = NoCall]
                      /\ UNCHANGED teLeft
    /\ UNCHANGED <<nTE, long, recheck, sessVars, qVars, cmdVars>>
    /\ Quiet

\* quit = true: `let _ = manager.remove(self.guild_id).await`.
rq_remove(s) ==
    /\ evpc[s] = "rq_remove"
    /\ (remove_ok \/ remove_err)
    /\ evpc' = [evpc EXCEPT ![s] = "idle"]
    /\ UNCHANGED <<nextSess, lock, nTE, long, recheck, evh, teLeft, qVars, cmdVars>>
    /\ Quiet

\* ---- specifications -------------------------------------------------------------
Next ==
    \/ \E c \in Cmds :
        \/ Dispatch(c)
        \/ not_in_voice(c)
        \/ manager_join(c)
        \/ call_join(c)
        \/ queue_get(c)
        \/ queue_lock(c)
        \/ queue_single(c)
        \/ queue_playlist(c)
        \/ queue_error(c)
        \/ manager_get(c)
        \/ locked(c)
    \/ \E s \in Sess :
        \/ track_finish(s)
        \/ queue_handler(s)
        \/ tick(s)
        \/ te_get(s)
        \/ te_check(s)
        \/ te_remove(s)
        \/ dn_fire(s)
        \/ dn_pause(s)
        \/ dn_say(s)
        \/ rq_fire(s)
        \/ rq_check(s)
        \/ rq_remove(s)

Spec == Init /\ [][Next]_vars

NextLeave ==
    \/ Next
    \/ \E c \in Cmds : dispatch_leave(c) \/ leave(c)

SpecLeave == Init /\ [][NextLeave]_vars

\* ---- the playlist loop of queue, item by item -----------------------------------
\* resp.items: n entries, the video ids from `from` on; ok says whether
\* Restartable::ytdl resolves the entry.
Items(oks, from) ==
    [i \in 1..Len(oks) |-> [vid |-> from + i - 1, ok |-> oks[i]]]

\* queue, playlist URL: the playlistItems request succeeded.
playlist_fetch(c) ==
    /\ pc[c] = "resolve"
    /\ \E n \in 0..MaxItems : \E oks \in [1..n -> BOOLEAN] :
        /\ nextTrack + n <= MaxTracks + 1
        /\ resp' = [resp EXCEPT ![c] = Items(oks, nextTrack)]
        /\ nextTrack' = nextTrack + n
    /\ sources' = [sources EXCEPT ![c] = <<>>]
    /\ pc' = [pc EXCEPT ![c] = "items"]
    /\ Say(<<>>)
    /\ UNCHANGED <<queue, awaiting, last, kind, hl, ncmd, sessVars, evVars,
                   muteVars, joinErr>>

\* Mutant of playlist_item: the first item that fails ends the loop.
playlist_item_abort(c) ==
    /\ pc[c] = "items"
    /\ resp[c] # <<>>
    /\ IF Head(resp[c]).ok
       THEN /\ sources' = [sources EXCEPT ![c] = Append(@, Head(resp[c]).vid)]
            /\ resp' = [resp EXCEPT ![c] = Tail(@)]
       ELSE /\ resp' = [resp EXCEPT ![c] = <<>>]
            /\ UNCHANGED sources
    /\ Say(<<>>)
    /\ UNCHANGED <<sessVars, qVars, evVars, cmdVars, muteVars, joinErr>>

\* `for item in resp.items`: one turn of the loop; Ok(source) is pushed, an
\* Err is printed.
playlist_item(c) ==
    /\ pc[c] = "items"
    /\ resp[c] # <<>>
    /\ sources' = [sources EXCEPT ![c] =
                     IF Head(resp[c]).ok THEN Append(@, Head(resp[c]).vid) ELSE @]
    /\ resp' = [resp EXCEPT ![c] = Tail(@)]
    /\ Say(<<>>)
    /\ UNCHANGED <<sessVars, qVars, evVars, cmdVars, muteVars, joinErr>>

\* queue, after the loop: `for source in sources { handler.enqueue_source }`,
\* the two global events, the reply, the return.
playlist_enqueue(c) ==
    LET s == hl[c] IN
    /\ pc[c] = "items"
    /\ resp[c] = <<>>
    /\ queue' = [queue EXCEPT ![s] = enqueue_sources(queue[s], sources[c])]
    /\ sources' = [sources EXCEPT ![c] = <<>>]
    /\ nTE' = [nTE EXCEPT ![s] = @ + 1]
    /\ long' = [long EXCEPT ![s] = @ + 1]
    /\ lock' = [lock EXCEPT ![s] = Free]
    /\ Return(c)
    /\ Say(<<MsgN("Added songs to queue: total length is", Len(queue'[s]))>>)
    /\ UNCHANGED <<calls, nextSess, removed, ncmd, awaiting, nextTrack, last,
                   recheck, evpc, evh, teLeft, resp, muteVars, joinErr>>

NextPlaylist ==
    \/ Next
    \/ \E c \in Cmds : playlist_fetch(c) \/ playlist_item(c) \/ playlist_enqueue(c)

SpecPlaylist == Init /\ [][NextPlaylist]_vars

\* ---- mute, unmute, deafen, undeafen ----------------------------------------------
VoiceKinds == {"mute", "unmute", "deafen", "undeafen"}

\* The framework dispatches mute, unmute, deafen or undeafen.
dispatch_voice(c) ==
    /\ pc[c] = "idle"
    /\ ncmd < MaxCmds
    /\ \E k \in VoiceKinds : kind' = [kind EXCEPT ![c] = k]
    /\ pc' = [pc EXCEPT ![c] = "get"]
    /\ ncmd' = ncmd + 1
    /\ UNCHANGED <<hl, sessVars, qVars, evVars>>
    /\ Quiet

\* What the command says around handler.mute / handler.deafen: "Failed: .."
\* on an Err, and then the success text in either case.
voice_reply(r, done) ==
    IF r = "err" THEN <<Msg("Failed"), Msg(done)>> ELSE <<Msg(done)>>

\* Call::mute(m) / Call::deafen(d): the flag is set first, then the gateway
\* update is sent and its result returned.
mute(c) ==
    LET s == hl[c] IN
    /\ kind[c] = "mute"
    /\ IF self_mute[s]
       THEN Say(<<Msg("Already muted")>>) /\ UNCHANGED muteVars
       ELSE \E r \in {"ok", "err"} :
              /\ self_mute' = [self_mute EXCEPT ![s] = TRUE]
              /\ tx' = r
              /\ said' = voice_reply(r, "Now muted")
              /\ UNCHANGED self_deaf

deafen(c) ==
    LET s == hl[c] IN
    /\ kind[c] = "deafen"
    /\ IF self_deaf[s]
       THEN Say(<<Msg("Already deafened")>>) /\ UNCHANGED muteVars
       ELSE \E r \in {"ok", "err"} :
              /\ self_deaf' = [self_deaf EXCEPT ![s] = TRUE]
              /\ tx' = r
              /\ said' = voice_reply(r, "Deafened")
              /\ UNCHANGED self_mute

unmute(c) ==
    LET s == hl[c] IN
    /\ kind[c] = "unmute"
    /\ \E r \in {"ok", "err"} :
         /\ self_mute' = [self_mute EXCEPT ![s] = FALSE]
         /\ tx' = r
         /\ said' = voice_reply(r, "Unmuted")
         /\ UNCHANGED self_deaf

undeafen(c) ==
    LET s == hl[c] IN
    /\ kind[c] = "undeafen"
    /\ \E r \in {"ok", "err"} :
         /\ self_deaf' = [self_deaf EXCEPT ![s] = FALSE]
         /\ tx' = r
         /\ said' = voice_reply(r, "Undeafened")
         /\ UNCHANGED self_mute

\* mute, unmute, deafen, undeafen: the body under handler_lock.lock().await.
voice_locked(c) ==
    /\ pc[c] = "act"
    /\ lock[hl[c]] = Free
    /\ (mute(c) \/ unmute(c) \/ deafen(c) \/ undeafen(c))
    /\ Return(c)
    /\ UNCHANGED <<ncmd, sessVars, qVars, evVars, joinErr, plVars>>

\* The program as built: the twelve commands of the General group.
NextVoice ==
    \/ Next
    \/ \E c \in Cmds : dispatch_voice(c) \/ voice_locked(c)

SpecVoice == Init /\ [][NextVoice]_vars

\* The twelve commands and leave.
NextAll ==
    \/ NextVoice
    \/ \E c \in Cmds : dispatch_leave(c) \/ leave(c)

SpecAll == Init /\ [][NextAll]_vars

NextConn ==
    \/ Next
    \/ \E c \in Cmds : call_join_err(c)

SpecConn == Init /\ [][NextConn]_vars

\* ---- properties -----------------------------------------------------------------
Front(s) == queue[s][1]

\* C1: a Session a track-end notification removes from the Registry has an
\* empty queue at the moment it is removed: the emptiness check and the removal
\* are one atomic step, so no source enqueued in between is torn down with it.
C1_ReclaimOnlyEmpty ==
    [][\A s \in Sess :
         te_remove(s) /\ calls # NoCall => queue[calls] = <<>>]_vars

\* C2: a track-end handler that found the queue empty and goes on to remove
\* the Session still finds it registered: its removal is the one removal, and
\* it neither removes a Session a second time nor fails because it is gone.
C2_OneRemoval ==
    \A s \in Sess : evpc[s] = "te_remove" => calls # NoCall

\* C3: a Session never has more than one long-session timer or more than one
\* track-end observer registered.
C3_OneChain ==
    \A s \in Sess : long[s] <= 1 /\ nTE[s] <= 1

\* C4: a long-session or recheck timer that fires when the Call it was armed
\* on is removed or replaced returns at once: no lock is taken, nothing is
\* paused, armed or removed, nothing is said in the channel.
C4_StaleTimerNoOp ==
    [][\A s \in Sess :
         (dn_fire(s) \/ rq_fire(s)) /\ calls # s => evpc'[s] = "idle"]_vars

\* C5: a stop that empties the queue leaves no long-session or recheck timer
\* armed on that Session.
C5_StopCancelsTimers ==
    [][\A c \in Cmds :
         locked(c) /\ kind[c] \in {"stop", "play"} /\ queue[hl[c]] # <<>>
           => long'[hl[c]] = 0 /\ recheck'[hl[c]] = 0]_vars

C7_ResumeKeepsSession ==
    [][\A s \in Sess :
         rq_check(s) /\ last[evh[s]] = "resume"
           => /\ evpc'[s] # "rq_remove"
              /\ UNCHANGED <<calls, removed, long, recheck>>]_vars

\* One queue command and one resume: the long-session timer fired, the resume
\* followed the auto-pause, the recheck timer fired, and the Session is still
\* registered and playing, with no timer left.
C7_Witness ==
    \E s \in Sess :
        /\ calls = s /\ nTE[s] = 1 /\ ncmd = 2
        /\ last[s] = "resume"
        /\ long[s] = 0 /\ recheck[s] = 0 /\ evpc[s] = "idle"
        /\ queue[s] # <<>> /\ Front(s).mode = "Play"

\* The steps that need no user command.
EventNext ==
    \E s \in Sess :
        \/ track_finish(s) \/ queue_handler(s) \/ tick(s)
        \/ te_get(s) \/ te_check(s) \/ te_remove(s)
        \/ dn_fire(s) \/ dn_pause(s) \/ dn_say(s)
        \/ rq_fire(s) \/ rq_check(s) \/ rq_remove(s)

\* C8: a Session does not stay registered when no command is in flight and
\* no track, handler or timer is left that could remove it: a registered
\* Session left alone can always still be reclaimed.
C8_IdleSessionReclaimed ==
    (\A c \in Cmds : pc[c] = "idle") /\ ~ ENABLED EventNext => calls = NoCall

C10_ShuffleKeepsHead ==
    [][\A c \in Cmds :
         locked(c) /\ kind[c] = "shuffle" /\ queue[hl[c]] # <<>>
           => /\ Len(queue'[hl[c]]) = Len(queue[hl[c]])
              /\ {queue'[hl[c]][i].id : i \in 1..Len(queue'[hl[c]])}
                   = {queue[hl[c]][i].id : i \in 1..Len(queue[hl[c]])}
              /\ queue'[hl[c]][1].id = queue[hl[c]][1].id]_vars

\* C11: the length of a Session's queue follows the operations on it: a queue
\* command adds the number of sources it enqueued, a skip of a head that is
\* in the mixer takes one entry off, a stop takes every entry off; the length
\* is never negative.
C11_LengthAccounting ==
    [][\A c \in Cmds :
         LET s == hl[c] IN
         /\ (queue_single(c) \/ queue_playlist(c))
              => Len(queue'[s]) = Len(queue[s]) + (nextTrack' - nextTrack)
         /\ locked(c) /\ kind[c] = "skip"
                      /\ queue[s] # <<>> /\ queue[s][1].mode \in Live
              => Len(queue'[s]) = Len(queue[s]) - 1
         /\ locked(c) /\ kind[c] \in {"stop", "play"}
              => Len(queue'[s]) = 0]_vars

\* C12: skip on a queue whose head is in the mixer discards the head, leaves
\* the entries behind it as the queue, the first of them playing, and says the
\* new length, the old length minus one; skip on an empty queue changes
\* nothing, says a length of 0 and returns.
C12_SkipAdvances ==
    [][\A c \in Cmds :
         locked(c) /\ kind[c] = "skip" =>
           LET s == hl[c]
               q == queue[s]
           IN  /\ pc'[c] = "idle"
               /\ q = <<>> => queue'[s] = <<>> /\ said'[1].n = 0
               /\ q # <<>> /\ q[1].mode \in Live =>
                     /\ queue'[s] = PlayNext(Tail(q))
                     /\ said'[1].n = Len(q) - 1]_vars

\* C18: while a queue command resolves its sources (search, URL or playlist
\* request) the Mutex of the Call is not held by that command.
C18_NoLockDuringResolve ==
    \A c \in Cmds : pc[c] = "resolve" => lock[hl[c]] # c

\* C19: a recheck handler that finds the Call registered and its queue
\* without a current track returns without a fault and without going on to
\* the removal.
C19_RecheckNoCurrent ==
    [][\A s \in Sess :
         rq_check(s) /\ queue[evh[s]] = <<>> => evpc'[s] = "idle"]_vars

\* C20: after a shuffle the head of the queue is not paused, whatever its
\* state before: a head that is in the mixer plays.  With a shuffle as the
\* last control on the queue, the recheck handler does not go on to the
\* removal and the Registry is unchanged.
C20_ShuffleResumes ==
    [][/\ \A c \in Cmds :
            locked(c) /\ kind[c] = "shuffle" /\ queue'[hl[c]] # <<>>
              => queue'[hl[c]][1].mode # "Pause"
       /\ \A s \in Sess :
            rq_check(s) /\ last[evh[s]] = "shuffle"
              => evpc'[s] # "rq_remove" /\ UNCHANGED <<calls, removed>>]_vars

\* One queue command and one shuffle: the long-session timer paused the
\* queue, the shuffle followed, the recheck timer fired, and the Session is
\* still registered with its head playing.
C20_Witness ==
    \E s \in Sess :
        /\ calls = s /\ nTE[s] = 1 /\ ncmd = 2
        /\ last[s] = "shuffle"
        /\ long[s] = 0 /\ recheck[s] = 0 /\ evpc[s] = "idle"
        /\ queue[s] # <<>> /\ Front(s).mode = "Play"

\* The video ids of the items that resolve, in the order of the playlist.
RECURSIVE OkVids(_)
OkVids(items) ==
    IF items = <<>> THEN <<>>
    ELSE IF Head(items).ok THEN <<Head(items).vid>> \o OkVids(Tail(items))
    ELSE OkVids(Tail(items))

\* C17: in a playlist batch an item that fails to resolve does not end the
\* batch: a turn of the loop loses none of the resolving items, those already
\* in `sources` and those still to come, and keeps their order; the enqueue
\* appends the sources to the queue in that order.
C17_PlaylistKeepsGoing ==
    [][\A c \in Cmds :
         /\ playlist_fetch(c) => sources'[c] = <<>>
         /\ playlist_item(c) =>
               sources'[c] \o OkVids(resp'[c]) = sources[c] \o OkVids(resp[c])
         /\ playlist_enqueue(c) =>
               LET s == hl[c]
                   k == Len(queue[s])
               IN  /\ Len(queue'[s]) = k + Len(sources[c])
                   /\ \A i \in 1..k : queue'[s][i] = queue[s][i]
                   /\ \A i \in 1..Len(sources[c]) :
                         queue'[s][k + i].id = sources[c][i]]_vars

\* A playlist whose first item failed and whose second resolved: the second
\* is in the queue, the first is not.
C17_Witness ==
    \E s \in Sess :
        /\ nextTrack = 3 /\ ncmd = 1 /\ nTE[s] = 1
        /\ said = <<MsgN("Added songs to queue: total length is", 1)>>
        /\ Len(queue[s]) = 1 /\ Front(s).id = 2

\* C16: when the connection cannot be established during join, or during the
\* join a queue command makes, the command says so and returns, no Call is
\* left registered, and a Call whose connection failed has no source in its
\* queue and no handler or timer armed.
C16_JoinFailureReported ==
    [][/\ \A c \in Cmds :
            call_join_err(c) => said' # <<>> /\ pc'[c] = "idle" /\ calls' = NoCall
       /\ \A s \in Sess :
            joinErr'[s] => queue'[s] = <<>> /\ nTE'[s] = 0 /\ long'[s] = 0]_vars

\* The flag the command is about already has the value the command asks for.
AlreadySet(c) ==
    CASE kind[c] = "mute" -> self_mute[hl[c]]
      [] kind[c] = "unmute" -> ~ self_mute[hl[c]]
      [] kind[c] = "deafen" -> self_deaf[hl[c]]
      [] kind[c] = "undeafen" -> ~ self_deaf[hl[c]]
      [] OTHER -> FALSE

SuccessTexts == {"Now muted", "Unmuted", "Deafened", "Undeafened"}

\* C13: mute, unmute, deafen or undeafen on a Call whose flag already has the
\* asked value sends no gateway update, leaves the flags alone and says one
\* message that is not the success text.
C13_AlreadyInState ==
    [][\A c \in Cmds :
         voice_locked(c) /\ AlreadySet(c)
           => /\ tx' = "none"
              /\ UNCHANGED muteVars
              /\ Len(said') = 1 /\ said'[1].msg \notin SuccessTexts]_vars

\* C14: when the gateway update of mute, unmute, deafen or undeafen fails,
\* the command says the failure and no success text, and the mute and deaf
\* flags of the Call are as before.
C14_FailureReported ==
    [][\A c \in Cmds :
         voice_locked(c) /\ tx' = "err"
           => /\ said' = <<Msg("Failed")>>
              /\ UNCHANGED muteVars]_vars

NotConnectedTexts ==
    {"Not in a voice channel", "Not in a voice channel to unmute in",
     "Not in a voice channel to undeafen in", "Not in a voice channel to play in"}

\* C15: mute, unmute, deafen, undeafen, skip, stop, pause, resume, shuffle
\* or leave that finds no Call registered says not-connected, once, and
\* returns: no Call is created, no gateway update is sent, no queue, flag,
\* handler or timer changes, and nothing panics.
C15_NotConnected ==
    [][\A c \in Cmds :
         manager_get(c) /\ calls = NoCall /\ kind[c] # "play"
           => /\ Len(said') = 1 /\ said'[1].msg \in NotConnectedTexts
              /\ tx' = "none"
              /\ pc'[c] = "idle" /\ hl'[c] = NoCall
              /\ UNCHANGED <<sessVars, qVars, evVars, muteVars, joinErr>>]_vars

\* A Call was registered and the track-end handler removed it; the skip,
\* stop, pause, resume or shuffle that came next said it is not connected.
C15_Witness ==
    /\ calls = NoCall /\ removed = {1} /\ ncmd = 2
    /\ said = <<Msg("Not in a voice channel to play in")>>
    /\ \A c \in Cmds : pc[c] = "idle"

\* C21: play is stop followed by queue.  Its stop leaves no entry in the
\* queue.  When it has enqueued its sources, the Call it enqueued them on is
\* the registered one, these sources are the last entries of its queue, in
\* order, and no track-end handler that saw the queue empty after the stop is
\* still on its way to the removal.
C21_PlayReplacesQueue ==
    [][\A c \in Cmds :
         /\ locked(c) /\ kind[c] = "play" => queue'[hl[c]] = <<>>
         /\ (queue_single(c) \/ queue_playlist(c)) /\ kind[c] = "play"
              => LET s == hl[c]
                     n == nextTrack' - nextTrack
                     k == Len(queue[s])
                 IN  /\ calls' = s
                     /\ Len(queue'[s]) = k + n
                     /\ \A i \in 1..n : queue'[s][k + i].id = nextTrack + i - 1
                     /\ \A e \in Sess : evpc'[e] # "te_remove"]_vars
====
